---- MODULE Spec2Model ----
(***************************************************************************)
(* The Prophet forecasting notebook (notebooks/1_prophet_forecast.ipynb)   *)
(* as a state machine: one action per notebook cell, executed top to       *)
(* bottom; an exception in a cell ends the run.  Data frames are sequences *)
(* of records, timestamps are records [year, month, day].                  *)
(***************************************************************************)
EXTENDS Integers, Sequences, FiniteSets

VARIABLES
    file,           \* the CSV at data_path: [kind, rows]
    pc,             \* the next cell to run, or "done" / "aborted"
    error,          \* [cell, type] of the exception that ended the run
    df,             \* the transactions frame
    monthly_spend,  \* the monthly series: <<[ds, y], ...>>
    train_cutoff,
    train_df,
    test_df,
    m,              \* the Prophet model: [fitted, history_dates]
    future,         \* dates handed to m.predict
    forecast,       \* <<[ds, yhat, yhat_lower, yhat_upper], ...>>
    future_only,
    eval_df,        \* <<[ds, y, yhat], ...>>, yhat <<v>> or <<>> (NaN)
    mae,            \* [num, den]: the mean num/den, kept exact
    artifacts,      \* image files written and results printed
    defined         \* the notebook globals bound so far

vars == <<file, pc, error, df, monthly_spend, train_cutoff, train_df, test_df,
          m, future, forecast, future_only, eval_df, mae, artifacts, defined>>

----------------------------------------------------------------------------
(* Bounds of the model *)

MaxRows == 3        \* rows of the CSV in Spec
WindowLen == 9      \* months a series of SpecMonthly may cover
NumStarts == 12     \* first months tried for the 14-month scenario

(* Program constants *)

HoldoutMonths == 6      \* pd.DateOffset(months=6)
ForecastPeriods == 6    \* make_future_dataframe(periods=6, ...)
ScenarioLen == 14       \* "Train a Prophet model on 14 months of data"

city == "Bengaluru, India"
category == "Food"

----------------------------------------------------------------------------
(* Timestamps *)

NaT == [year |-> 0, month |-> 0, day |-> 0]

IsNaT(t) == t.year = 0

TsKey(t) == (t.year * 12 + (t.month - 1)) * 32 + t.day

\* Comparisons with NaT are False, as in pandas.
TsLeq(a, b) == ~IsNaT(a) /\ ~IsNaT(b) /\ TsKey(a) <= TsKey(b)
TsGt(a, b) == ~IsNaT(a) /\ ~IsNaT(b) /\ TsKey(a) > TsKey(b)

IsLeap(y) == (y % 4 = 0 /\ y % 100 # 0) \/ y % 400 = 0

DaysInMonth(y, mo) ==
    IF mo = 2 THEN (IF IsLeap(y) THEN 29 ELSE 28)
    ELSE IF mo \in {4, 6, 9, 11} THEN 30 ELSE 31

MonthAbbr == <<"Jan", "Feb", "Mar", "Apr", "May", "Jun",
               "Jul", "Aug", "Sep", "Oct", "Nov", "Dec">>

\* %b: the month number of an abbreviated name, 0 when it is none.
MonthNum(b) ==
    IF \E i \in 1..12 : MonthAbbr[i] = b
    THEN CHOOSE i \in 1..12 : MonthAbbr[i] = b
    ELSE 0

\* %y: a two-digit year, 69-99 in the 1900s and 00-68 in the 2000s.
FullYear(yy) == IF yy <= 68 THEN 2000 + yy ELSE 1900 + yy

\* Whether a raw Date cell [d, b, y] matches format '%d-%b-%y'.
Parseable(raw) ==
    /\ MonthNum(raw.b) # 0
    /\ raw.y \in 0..99
    /\ raw.d \in 1..DaysInMonth(FullYear(raw.y), MonthNum(raw.b))

ToDatetime(raw) ==
    [year |-> FullYear(raw.y), month |-> MonthNum(raw.b), day |-> raw.d]

\* .dt.to_period('M').dt.to_timestamp(): the first day of the month.
ToMonthStart(t) == [year |-> t.year, month |-> t.month, day |-> 1]

\* t + pd.DateOffset(months=n), n possibly negative; NaT stays NaT.
AddMonths(t, n) ==
    IF IsNaT(t) THEN NaT
    ELSE LET idx == t.year * 12 + (t.month - 1) + n
             y == idx \div 12
             mo == (idx % 12) + 1
             dim == DaysInMonth(y, mo)
         IN [year |-> y, month |-> mo, day |-> IF t.day < dim THEN t.day ELSE dim]

----------------------------------------------------------------------------
(* Sequences *)

RECURSIVE SelectRows(_, _)
\* frame[mask]: the rows whose index is in keep, in order.
SelectRows(s, keep) ==
    IF s = <<>> THEN <<>>
    ELSE LET n == Len(s)
             front == SelectRows(SubSeq(s, 1, n - 1), keep)
         IN IF n \in keep THEN Append(front, s[n]) ELSE front

Dates(frame) == {frame[i].ds : i \in 1..Len(frame)}

\* Series.max() of a datetime column; NaT when it is empty.
MaxDate(S) ==
    IF S = {} THEN NaT
    ELSE CHOOSE t \in S : \A u \in S : TsKey(u) <= TsKey(t)

RECURSIVE SortDates(_)
SortDates(S) ==
    IF S = {} THEN <<>>
    ELSE LET lo == CHOOSE t \in S : \A u \in S : TsKey(t) <= TsKey(u)
         IN <<lo>> \o SortDates(S \ {lo})

----------------------------------------------------------------------------
(* Cell 4: preprocessing and monthly aggregation *)

\* df['Date'] = pd.to_datetime(...); df['YearMonth'] = month start of Date.
WithYearMonth(rows) ==
    [i \in 1..Len(rows) |->
        [Date |-> ToDatetime(rows[i].Date),
         City |-> rows[i].City,
         ExpType |-> rows[i].ExpType,
         Amount |-> rows[i].Amount,
         YearMonth |-> ToMonthStart(ToDatetime(rows[i].Date))]]

MaskAnyField(r) == r.City = city \/ r.ExpType = category

\* mask = (df['City'] == city) & (df['Exp Type'] == category)
Mask(r) == r.City = city /\ r.ExpType = category

\* df.loc[mask, ['YearMonth', 'Amount']]
FilterRows(rows) == SelectRows(rows, {i \in 1..Len(rows) : Mask(rows[i])})

RECURSIVE SumAmountWhere(_, _)
\* The sum of Amount over the rows of the group with key k.
SumAmountWhere(rows, k) ==
    IF rows = <<>> THEN 0
    ELSE LET n == Len(rows)
             rest == SumAmountWhere(SubSeq(rows, 1, n - 1), k)
         IN IF rows[n].YearMonth = k THEN rest + rows[n].Amount ELSE rest

RECURSIVE KeysFirstSeen(_)
\* The group keys in order of first appearance (groupby(..., sort=False)).
KeysFirstSeen(rows) ==
    IF rows = <<>> THEN <<>>
    ELSE LET n == Len(rows)
             front == KeysFirstSeen(SubSeq(rows, 1, n - 1))
         IN IF \E i \in 1..Len(front) : front[i] = rows[n].YearMonth
            THEN front
            ELSE Append(front, rows[n].YearMonth)

\* The group keys of groupby('YearMonth'): unique and sorted ascending.
GroupKeys(rows) == SortDates({rows[i].YearMonth : i \in 1..Len(rows)})

\* .groupby('YearMonth')['Amount'].sum().reset_index().rename(ds, y)
GroupBySum(rows) ==
    LET keys == GroupKeys(rows)
    IN [j \in 1..Len(keys) |-> [ds |-> keys[j], y |-> SumAmountWhere(rows, keys[j])]]

----------------------------------------------------------------------------
(* Cell 6: train/test split *)

CutoffOneShort(series) == AddMonths(MaxDate(Dates(series)), -(HoldoutMonths - 1))

\* train_cutoff = monthly_spend['ds'].max() - pd.DateOffset(months=6)
TrainCutoff(series) == AddMonths(MaxDate(Dates(series)), -HoldoutMonths)

TrainRowsStrict(series, cutoff) ==
    SelectRows(series, {i \in 1..Len(series) : ~IsNaT(series[i].ds) /\ ~IsNaT(cutoff)
                                               /\ TsKey(series[i].ds) < TsKey(cutoff)})

\* monthly_spend[monthly_spend['ds'] <= train_cutoff]
TrainRows(series, cutoff) ==
    SelectRows(series, {i \in 1..Len(series) : TsLeq(series[i].ds, cutoff)})

\* monthly_spend[monthly_spend['ds'] > train_cutoff]
TestRows(series, cutoff) ==
    SelectRows(series, {i \in 1..Len(series) : TsGt(series[i].ds, cutoff)})

----------------------------------------------------------------------------
(* Cells 7 and 8: the Prophet model *)

FitNeverRefuses(train) == FALSE

\* m.fit(train_df) raises ValueError on fewer than 2 rows.
FitRefuses(train) == Len(train) < 2

\* pd.date_range(start, periods=n, freq='MS'): n month starts from start on.
DateRangeMS(start, n) ==
    IF IsNaT(start) THEN <<>>
    ELSE LET first == IF start.day = 1 THEN start
                      ELSE ToMonthStart(AddMonths(start, 1))
         IN [i \in 1..n |-> AddMonths(first, i - 1)]

FutureKeepsLastDate(history, periods) ==
    LET last_date == MaxDate(history)
        dates == DateRangeMS(last_date, periods + 1)
    IN SortDates(history) \o SubSeq(dates, 1, IF periods < Len(dates) THEN periods ELSE Len(dates))

\* m.make_future_dataframe(periods, freq='MS'): the history dates, then the
\* first `periods` dates of the range that lie after the last history date.
MakeFutureDataframe(history, periods) ==
    LET last_date == MaxDate(history)
        dates == DateRangeMS(last_date, periods + 1)
        after == SelectRows(dates, {i \in 1..Len(dates) : TsGt(dates[i], last_date)})
    IN SortDates(history) \o SubSeq(after, 1, IF periods < Len(after) THEN periods ELSE Len(after))

\* m.predict(future): one row per date.  The estimates are the library's;
\* here a line base + slope * i with a band of half-width width.
Predict(dates, base, slope, width) ==
    [i \in 1..Len(dates) |->
        [ds |-> dates[i],
         yhat |-> base + slope * i,
         yhat_lower |-> base + slope * i - width,
         yhat_upper |-> base + slope * i + width]]

\* forecast[forecast['ds'] > train_df['ds'].max()]
FutureOnly(fc, train) ==
    SelectRows(fc, {i \in 1..Len(fc) : TsGt(fc[i].ds, MaxDate(Dates(train)))})

----------------------------------------------------------------------------
(* Cell 10: evaluation *)

\* test_df.merge(forecast[['ds','yhat']], on='ds', how='left'): every row
\* of test_df, with the yhat of the forecast row of the same ds, else NaN.
\* (the forecast's dates are unique, so a row matches at most once)
LeftMerge(test, fc) ==
    [i \in 1..Len(test) |->
        [ds |-> test[i].ds,
         y |-> test[i].y,
         yhat |-> IF \E j \in 1..Len(fc) : fc[j].ds = test[i].ds
                  THEN <<fc[CHOOSE j \in 1..Len(fc) : fc[j].ds = test[i].ds].yhat>>
                  ELSE <<>>]]

KeepNa(frame) == frame

\* .dropna(subset=['y','yhat']); y is a sum and is never NaN.
DropNa(frame) == SelectRows(frame, {i \in 1..Len(frame) : frame[i].yhat # <<>>})

Abs(x) == IF x < 0 THEN -x ELSE x

RECURSIVE SumAbsError(_)
SumAbsError(frame) ==
    IF frame = <<>> THEN 0
    ELSE LET n == Len(frame)
         IN SumAbsError(SubSeq(frame, 1, n - 1)) + Abs(frame[n].y - frame[n].yhat[1])

\* mean_absolute_error(y, yhat) = num / den; raises ValueError on no rows.
MeanAbsoluteError(frame) == [num |-> SumAbsError(frame), den |-> Len(frame)]

----------------------------------------------------------------------------
(* The notebook's cells *)

CellOrder ==
    <<"load", "inspect", "preprocess", "plot_history", "split", "fit",
      "forecast", "plot_forecast", "evaluate", "plot_components", "print_dates">>

ComponentsFirstOrder ==
    <<"load", "inspect", "preprocess", "plot_history", "split", "fit",
      "forecast", "plot_forecast", "plot_components", "evaluate", "print_dates">>

PositionIn(order, c) == CHOOSE i \in 1..Len(order) : order[i] = c

CellAfterComponentsFirst(c) ==
    IF PositionIn(ComponentsFirstOrder, c) = Len(ComponentsFirstOrder) THEN "done"
    ELSE ComponentsFirstOrder[PositionIn(ComponentsFirstOrder, c) + 1]

\* The cell that runs after cell c, top to bottom; "done" after the last.
CellAfter(c) ==
    IF PositionIn(CellOrder, c) = Len(CellOrder) THEN "done"
    ELSE CellOrder[PositionIn(CellOrder, c) + 1]

NoError == [cell |-> "", type |-> ""]

\* An exception in cell c ends the run.
Abort(c, type) ==
    /\ pc' = "aborted"
    /\ error' = [cell |-> c, type |-> type]

Proceed(c) ==
    /\ pc' = CellAfter(c)
    /\ error' = error

\* The Forecaster's estimates, chosen by the library.
YhatBase == {100, 160}
YhatSlope == {0, 10}
YhatWidth == {20}

\* Cell 2: df = pd.read_csv(data_path)
LoadDataset ==
    /\ pc = "load"
    /\ IF file.kind = "missing"
       THEN /\ Abort("load", "FileNotFoundError")
            /\ UNCHANGED <<df, defined>>
       ELSE /\ df' = file.rows
            /\ defined' = defined \cup {"df"}
            /\ Proceed("load")
    /\ UNCHANGED <<file, monthly_spend, train_cutoff, train_df, test_df, m,
                   future, forecast, future_only, eval_df, mae, artifacts>>

\* Cell 3: df['City'], df['Exp Type'], df.groupby(['City', 'Exp Type'])
InspectDataset ==
    /\ pc = "inspect"
    /\ IF file.kind = "no_columns"
       THEN Abort("inspect", "KeyError")
       ELSE Proceed("inspect")
    /\ UNCHANGED <<file, df, monthly_spend, train_cutoff, train_df, test_df, m,
                   future, forecast, future_only, eval_df, mae, artifacts, defined>>

\* Cell 4: parse the dates, filter on city and category, sum per month.
Preprocess ==
    /\ pc = "preprocess"
    /\ IF \E i \in 1..Len(df) : ~Parseable(df[i].Date)
       THEN /\ Abort("preprocess", "ValueError")
            /\ UNCHANGED <<df, monthly_spend, defined>>
       ELSE /\ df' = WithYearMonth(df)
            /\ monthly_spend' = GroupBySum(FilterRows(WithYearMonth(df)))
            /\ defined' = defined \cup {"monthly_spend"}
            /\ Proceed("preprocess")
    /\ UNCHANGED <<file, train_cutoff, train_df, test_df, m,
                   future, forecast, future_only, eval_df, mae, artifacts>>

\* A plotting cell: the figure is saved to `name`, or the save raises.
SavePlot(c, name) ==
    /\ pc = c
    /\ \E ok \in BOOLEAN :
          IF ok
          THEN /\ artifacts' = artifacts \cup {name}
               /\ Proceed(c)
          ELSE /\ Abort(c, "OSError")
               /\ UNCHANGED artifacts
    /\ UNCHANGED <<file, df, monthly_spend, train_cutoff, train_df, test_df, m,
                   future, forecast, future_only, eval_df, mae, defined>>

\* Cell 5: plt.savefig("../notebooks/assets/monthly_spend_plot.png")
PlotHistory == SavePlot("plot_history", "monthly_spend_plot.png")

\* Cell 6: the last 6 months are the test set.
TrainTestSplit ==
    /\ pc = "split"
    /\ train_cutoff' = TrainCutoff(monthly_spend)
    /\ train_df' = TrainRows(monthly_spend, TrainCutoff(monthly_spend))
    /\ test_df' = TestRows(monthly_spend, TrainCutoff(monthly_spend))
    /\ defined' = defined \cup {"train_cutoff", "train_df", "test_df"}
    /\ Proceed("split")
    /\ UNCHANGED <<file, df, monthly_spend, m,
                   future, forecast, future_only, eval_df, mae, artifacts>>

\* Cell 7: m = Prophet(...); m.fit(train_df)
FitProphet ==
    /\ pc = "fit"
    /\ defined' = defined \cup {"m"}
    /\ IF FitRefuses(train_df)
       THEN /\ Abort("fit", "ValueError")
            /\ UNCHANGED m
       ELSE /\ m' = [fitted |-> TRUE, history_dates |-> Dates(train_df)]
            /\ Proceed("fit")
    /\ UNCHANGED <<file, df, monthly_spend, train_cutoff, train_df, test_df,
                   future, forecast, future_only, eval_df, mae, artifacts>>

\* Cell 8: future, forecast = m.predict(future), future_only
Forecast ==
    /\ pc = "forecast"
    /\ future' = MakeFutureDataframe(m.history_dates, ForecastPeriods)
    /\ \E base \in YhatBase, slope \in YhatSlope, width \in YhatWidth :
          /\ forecast' = Predict(future', base, slope, width)
          /\ future_only' = FutureOnly(forecast', train_df)
    /\ defined' = defined \cup {"future", "forecast", "future_only"}
    /\ Proceed("forecast")
    /\ UNCHANGED <<file, df, monthly_spend, train_cutoff, train_df, test_df, m,
                   eval_df, mae, artifacts>>

\* Cell 9: fig1.savefig("../notebooks/assets/prophet_forecast.png")
PlotForecast == SavePlot("plot_forecast", "prophet_forecast.png")

\* Cell 10: eval_df, mae, and the printed error and test-period table.
\* mean_absolute_error raises ValueError on no rows and on a NaN.
Evaluate ==
    /\ pc = "evaluate"
    /\ eval_df' = DropNa(LeftMerge(test_df, forecast))
    /\ IF eval_df' = <<>> \/ \E i \in 1..Len(eval_df') : eval_df'[i].yhat = <<>>
       THEN /\ Abort("evaluate", "ValueError")
            /\ defined' = defined \cup {"eval_df"}
            /\ UNCHANGED <<mae, artifacts>>
       ELSE /\ mae' = MeanAbsoluteError(eval_df')
            /\ defined' = defined \cup {"eval_df", "mae"}
            /\ artifacts' = artifacts \cup {"mae", "report"}
            /\ Proceed("evaluate")
    /\ UNCHANGED <<file, df, monthly_spend, train_cutoff, train_df, test_df, m,
                   future, forecast, future_only>>

\* Cell 11: fig2.savefig("../notebooks/assets/prophet_components.png")
PlotComponents == SavePlot("plot_components", "prophet_components.png")

\* Last cell: print the test-period dates and the forecasted dates.
PrintDates ==
    /\ pc = "print_dates"
    /\ Proceed("print_dates")
    /\ UNCHANGED <<file, df, monthly_spend, train_cutoff, train_df, test_df, m,
                   future, forecast, future_only, eval_df, mae, artifacts, defined>>

Next ==
    \/ LoadDataset
    \/ InspectDataset
    \/ Preprocess
    \/ PlotHistory
    \/ TrainTestSplit
    \/ FitProphet
    \/ Forecast
    \/ PlotForecast
    \/ Evaluate
    \/ PlotComponents
    \/ PrintDates

----------------------------------------------------------------------------
(* Input files *)

RawDate(d, b, y) == [d |-> d, b |-> b, y |-> y]

Row(date, c, e, a) == [Date |-> date, City |-> c, ExpType |-> e, Amount |-> a]

\* Rows of a small CSV: four dates in three months of 2014 and one of 1999
\* for the filter, rows of another city or category, and a bad date.
RowUniverse ==
    { Row(RawDate(5, "Mar", 14), city, category, 100),
      Row(RawDate(30, "Apr", 14), city, category, 200),
      Row(RawDate(1, "Oct", 14), city, category, 300),
      Row(RawDate(31, "Oct", 14), city, category, 400),
      Row(RawDate(31, "Dec", 99), city, category, 50),
      Row(RawDate(1, "Oct", 14), "Delhi, India", category, 500),
      Row(RawDate(31, "Oct", 14), city, "Fuel", 600),
      Row(RawDate(5, "Mar", 14), "bengaluru, india", category, 700),
      Row(RawDate(31, "Feb", 14), "Delhi, India", "Fuel", 800) }

SeqsUpTo(S, n) == UNION {[1..k -> S] : k \in 0..n}

\* The month `offset` months after September 2013, on a day that varies.
MonthlyRow(offset) ==
    LET idx == 2013 * 12 + 8 + offset
    IN Row(RawDate(1 + 13 * (offset % 3), MonthAbbr[(idx % 12) + 1], (idx \div 12) % 100),
           city, category, 100 + 10 * offset)

RECURSIVE MonthlyRows(_)
\* One transaction of the filter in each month of `offsets`, in date order.
MonthlyRows(offsets) ==
    IF offsets = {} THEN <<>>
    ELSE LET hi == CHOOSE o \in offsets : \A q \in offsets : q <= o
         IN Append(MonthlyRows(offsets \ {hi}), MonthlyRow(hi))

InitRun ==
    /\ pc = "load"
    /\ error = NoError
    /\ df = <<>>
    /\ monthly_spend = <<>>
    /\ train_cutoff = NaT
    /\ train_df = <<>>
    /\ test_df = <<>>
    /\ m = [fitted |-> FALSE, history_dates |-> {}]
    /\ future = <<>>
    /\ forecast = <<>>
    /\ future_only = <<>>
    /\ eval_df = <<>>
    /\ mae = [num |-> 0, den |-> 0]
    /\ artifacts = {}
    /\ defined = {}

\* Any CSV of up to MaxRows rows, or none, or one without the columns.
Init ==
    /\ file \in {[kind |-> "missing", rows |-> <<>>], [kind |-> "no_columns", rows |-> <<>>]}
                \cup {[kind |-> "ok", rows |-> r] : r \in SeqsUpTo(RowUniverse, MaxRows)}
    /\ InitRun

Spec == Init /\ [][Next]_vars

\* A CSV with one transaction of the filter in some months of a window.
InitMonthly ==
    /\ file \in {[kind |-> "ok", rows |-> MonthlyRows(S)] : S \in SUBSET (0..(WindowLen - 1))}
    /\ InitRun

SpecMonthly == InitMonthly /\ [][Next]_vars

\* A CSV with one transaction in each of 14 consecutive months.
InitScenario ==
    /\ file \in {[kind |-> "ok", rows |-> MonthlyRows(s..(s + ScenarioLen - 1))] :
                    s \in 0..(NumStarts - 1)}
    /\ InitRun

SpecScenario == InitScenario /\ [][Next]_vars

----------------------------------------------------------------------------
(* Vocabulary of the properties *)

MonthIdx(t) == t.year * 12 + (t.month - 1)

\* The rows of the CSV whose City and Exp Type both equal the filter.
MatchingIdx ==
    {i \in 1..Len(file.rows) : file.rows[i].City = city /\ file.rows[i].ExpType = category}

RECURSIVE SumFileAmounts(_)
SumFileAmounts(I) ==
    IF I = {} THEN 0
    ELSE LET i == CHOOSE j \in I : TRUE
         IN file.rows[i].Amount + SumFileAmounts(I \ {i})

RECURSIVE SumY(_)
SumY(series) ==
    IF series = <<>> THEN 0
    ELSE series[1].y + SumY(Tail(series))

Has(name) == name \in defined

LastRows(series, n) == SubSeq(series, Len(series) - n + 1, Len(series))

\* The months of the series among the last 6 calendar months it covers.
RecentMonths(series) ==
    {i \in 1..Len(series) :
        MonthIdx(series[i].ds) > MonthIdx(series[Len(series)].ds) - HoldoutMonths}

\* A run over a readable, parseable CSV none of whose rows matches the filter.
FilterEmptyRun == Has("monthly_spend") /\ MatchingIdx = {}

IngestionFailed == pc = "aborted" /\ error.cell \in {"load", "inspect", "preprocess"}

PlotFailed == pc = "aborted" /\ error.type = "OSError"

----------------------------------------------------------------------------
(* Properties *)

C2_StrictlyIncreasing ==
    Has("monthly_spend") =>
        /\ \A i \in 1..Len(monthly_spend) :
              /\ monthly_spend[i].ds.day = 1
              /\ i > 1 => TsKey(monthly_spend[i - 1].ds) < TsKey(monthly_spend[i].ds)
        /\ \A i \in 1..Len(monthly_spend) : \E j \in MatchingIdx :
              ToMonthStart(ToDatetime(file.rows[j].Date)) = monthly_spend[i].ds

\* The file lists a later month before an earlier one, and a month that has
\* only a transaction of another city is not in the series.
C2_Witness ==
    /\ Has("monthly_spend")
    /\ Len(monthly_spend) = 2
    /\ Len(file.rows) = 3
    /\ file.rows[1].Date.b = "Apr" /\ 1 \in MatchingIdx
    /\ file.rows[2].Date.b = "Oct" /\ 2 \notin MatchingIdx
    /\ file.rows[3].Date.b = "Mar" /\ 3 \in MatchingIdx

\* C3: for a non-empty series the training and holdout parts are disjoint
\* and together hold every point, and every training date is at most
\* max(date) - 6 months while every holdout date is after it.
C3_SplitPartition ==
    (Has("train_df") /\ monthly_spend # <<>>) =>
        LET cutoffIdx == MonthIdx(monthly_spend[Len(monthly_spend)].ds) - HoldoutMonths
        IN /\ Len(train_df) + Len(test_df) = Len(monthly_spend)
           /\ Dates(train_df) \cap Dates(test_df) = {}
           /\ train_df \o test_df = monthly_spend
           /\ MonthIdx(train_cutoff) = cutoffIdx /\ train_cutoff.day = 1
           /\ \A i \in 1..Len(train_df) : MonthIdx(train_df[i].ds) <= cutoffIdx
           /\ \A i \in 1..Len(test_df) : MonthIdx(test_df[i].ds) > cutoffIdx

\* A split with both parts non-empty whose last training date is the cutoff.
C3_Witness ==
    /\ Has("train_df")
    /\ train_df # <<>> /\ test_df # <<>>
    /\ train_df[Len(train_df)].ds = train_cutoff

\* C4: 14 consecutive monthly points split into 8 training and 6 holdout
\* points, and the 6 forecast dates beyond the training range are the 6
\* month starts that follow the last training date: the holdout dates.
C4_FourteenMonths ==
    (Has("future_only") /\ Len(monthly_spend) = ScenarioLen
        /\ \A i \in 2..Len(monthly_spend) :
              MonthIdx(monthly_spend[i].ds) = MonthIdx(monthly_spend[i - 1].ds) + 1) =>
        /\ Len(train_df) = 8
        /\ Len(test_df) = 6
        /\ Len(future_only) = 6
        /\ \A i \in 1..Len(future_only) :
              /\ future_only[i].ds.day = 1
              /\ MonthIdx(future_only[i].ds) = MonthIdx(train_df[Len(train_df)].ds) + i
              /\ i <= Len(test_df) => future_only[i].ds = test_df[i].ds

\* The forecast of a 14-month series that runs over a year end.
C4_Witness ==
    /\ Has("future_only")
    /\ Len(monthly_spend) = ScenarioLen
    /\ monthly_spend[1].ds.year < train_df[Len(train_df)].ds.year
    /\ train_df[Len(train_df)].ds.year < test_df[Len(test_df)].ds.year

\* C5 as stated: the holdout of a series of more than 6 points is its 6
\* most recent points, whether or not months are missing.
C5_HoldoutIsLastSix ==
    (Has("test_df") /\ Len(monthly_spend) > 6) =>
        /\ Len(test_df) = 6
        /\ test_df = LastRows(monthly_spend, 6)
        /\ train_df = SubSeq(monthly_spend, 1, Len(monthly_spend) - 6)

\* C5 amended: the holdout of a series of more than 6 points is the points
\* of its last 6 calendar months, a suffix of at most 6 points, and it is
\* the 6 most recent points when none of these months is missing; the
\* training part is the remaining, non-empty prefix.
C5_HoldoutIsLastSixMonths ==
    (Has("test_df") /\ Len(monthly_spend) > 6) =>
        LET n == Cardinality(RecentMonths(monthly_spend))
        IN /\ Len(test_df) = n
           /\ n <= 6
           /\ test_df = LastRows(monthly_spend, n)
           /\ train_df = SubSeq(monthly_spend, 1, Len(monthly_spend) - n)
           /\ train_df # <<>>
           /\ n = 6 => test_df = LastRows(monthly_spend, 6)

\* A series of 8 points with a missing month whose holdout has 5 points.
C5_Witness ==
    /\ Has("test_df")
    /\ Len(monthly_spend) = 8
    /\ Len(test_df) = 5

\* C6: the evaluation records are the inner join of holdout and forecast on
\* date: one record for each holdout point whose date is a forecast date,
\* so at most min(len(holdout), len(forecast)) records.
C6_InnerJoin ==
    Has("eval_df") =>
        /\ {eval_df[i] : i \in 1..Len(eval_df)} =
              {[ds |-> test_df[i].ds, y |-> test_df[i].y, yhat |-> <<forecast[j].yhat>>] :
                  <<i, j>> \in {p \in (1..Len(test_df)) \X (1..Len(forecast)) :
                                   test_df[p[1]].ds = forecast[p[2]].ds}}
        /\ Len(eval_df) = Cardinality(Dates(test_df) \cap Dates(forecast))
        /\ Len(eval_df) <= Len(test_df)
        /\ Len(eval_df) <= Len(forecast)

\* An evaluation that keeps some holdout points and drops others.
C6_Witness ==
    /\ Has("eval_df")
    /\ eval_df # <<>>
    /\ Len(eval_df) < Len(test_df)

\* C7 as stated: a filter that matches nothing gives an empty series, and
\* the run then ends with FilterEmptyError and without a forecast.
C7_FilterEmptyError ==
    FilterEmptyRun =>
        /\ monthly_spend = <<>>
        /\ ~Has("forecast")
        /\ pc # "done"
        /\ (pc = "aborted" /\ ~PlotFailed) => error.type = "FilterEmptyError"

\* C7 amended: a filter that matches nothing gives an empty series without
\* error and empty training and holdout parts, and unless saving the history
\* plot fails the run ends in m.fit with the library's ValueError; no
\* forecast is produced.
C7_EndsInFitValueError ==
    FilterEmptyRun =>
        /\ monthly_spend = <<>>
        /\ Has("train_df") => (train_df = <<>> /\ test_df = <<>>)
        /\ ~Has("forecast")
        /\ pc \in {"plot_history", "split", "fit", "aborted"}
        /\ pc = "aborted" =>
              \/ error = [cell |-> "fit", type |-> "ValueError"]
              \/ error = [cell |-> "plot_history", type |-> "OSError"]

\* A file with rows, none for the filter, whose run ended in m.fit.
C7_Witness ==
    /\ FilterEmptyRun
    /\ file.rows # <<>>
    /\ error = [cell |-> "fit", type |-> "ValueError"]

\* C8 as stated: a run in which ingestion fails or the filter matches
\* nothing produces no output artifact.
C8_NoOutput ==
    (IngestionFailed \/ FilterEmptyRun) => artifacts = {}

\* C8 amended: a run in which ingestion fails produces no output artifact,
\* and a run in which the filter matches nothing produces none but the
\* history plot monthly_spend_plot.png.
C8_OnlyHistoryPlot ==
    /\ IngestionFailed => artifacts = {}
    /\ FilterEmptyRun => artifacts \subseteq {"monthly_spend_plot.png"}

\* The run of a filter that matches nothing has ended, the history plot
\* written.
C8_Witness ==
    /\ FilterEmptyRun
    /\ pc = "aborted"
    /\ artifacts = {"monthly_spend_plot.png"}

\* C9 as stated: whichever plot step fails, the forecast and the evaluation
\* results are computed in that run.
C9_ResultsDespitePlotFailure ==
    PlotFailed => (Has("forecast") /\ Has("eval_df") /\ Has("mae"))

\* C9 amended: a failing plot step changes no result already computed; when
\* the components plot fails, the forecast, the evaluation records and the
\* error are computed; when the history or the forecast plot fails, the run
\* ends before the evaluation.
C9_PlotFailureKeepsResults ==
    /\ [](PlotFailed =>
            /\ error.cell = "plot_components" =>
                  (Has("forecast") /\ Has("eval_df") /\ Has("mae") /\ eval_df # <<>>
                     /\ mae.den = Len(eval_df))
            /\ error.cell = "plot_forecast" => (Has("forecast") /\ ~Has("eval_df"))
            /\ error.cell = "plot_history" => (~Has("forecast") /\ ~Has("eval_df")))
    /\ [][PlotFailed' =>
            UNCHANGED <<monthly_spend, train_df, test_df, m, future, forecast,
                        future_only, eval_df, mae, defined, artifacts>>]_vars

\* The components plot failed after the evaluation.
C9_Witness ==
    /\ PlotFailed
    /\ error.cell = "plot_components"
    /\ Has("mae")

\* C10: every holdout date is a forecast date, so the evaluation has one
\* record for each holdout point.
C10_EvaluationCoversHoldout ==
    Has("eval_df") =>
        /\ Dates(test_df) \subseteq Dates(forecast)
        /\ Len(eval_df) = Len(test_df)

====
